---- MODULE Spec2Model ----
(***************************************************************************)
(* Model of the workflow orchestrator of src/main.py: Trace, Context,      *)
(* Step.run and Orchestrator.run.  A dict is a function whose domain is    *)
(* its key set.  A run is one call of Orchestrator.run(ctx) on a Context   *)
(* with an empty trace list.                                               *)
(***************************************************************************)
EXTENDS Integers, Sequences, FiniteSets, TLC

VARIABLES
    steps,      \* Orchestrator.steps: the list fixed by __init__
    data,       \* Context.data
    traces,     \* Context.traces
    pc,         \* position of Orchestrator.run / Step.run
    i,          \* 1-based index of the step the for loop is at
    cur,        \* Step.run's local `trace`: <<>> outside Step.run, <<t>> inside
    exc,        \* exception in flight in Step.run: "none", "Exception", "BaseException"
    clock,      \* next value time.time() returns
    invoked,    \* history: number of Step.run invocations started
    executed,   \* history: indices of the steps whose fn was called, in order
    before,     \* history: Context.data as it was when each Step.run began
    data0,      \* history: Context.data when Orchestrator.run was called
    gets        \* history: the last Context.get call, <<>> or <<[d, key, default, result]>>

vars == <<steps, data, traces, pc, i, cur, exc, clock, invoked, executed, before, data0, gets>>

\* ---------------------------------------------------------------- bounds
MaxSteps == 3

\* ---------------------------------------------------------------- values
Keys == {"x", "y", "error"}
Values == {"v1", "v2"}

EmptyMap == [k \in {} |-> "v1"]

Map1(k, v) == [a \in {k} |-> v]

Map2(k1, v1, k2, v2) == [a \in {k1, k2} |-> IF a = k1 THEN v1 ELSE v2]

\* Trace.finished_at's default, field(default=0.0)
Unclosed == 0

\* the first value of time.time(): any time after the epoch
Epoch == 1

\* ---------------------------------------------------------------- Context
\* a get that ignores the stored value
GetDefaultOnly(d, key, default) == default

\* Context.get: self.data.get(key, default)
Get(d, key, default) == IF key \in DOMAIN d THEN d[key] ELSE default

\* a Context.set that keeps the value of a key already present (setdefault)
SetKeepOld(d, k, v) == [a \in DOMAIN d \cup {k} |-> IF a \in DOMAIN d THEN d[a] ELSE v]

\* a Context.set that rebinds data to a dict holding only the new key
SetOnly(d, k, v) == [a \in {k} |-> v]

\* Context.set: self.data[key] = value
Set(d, k, v) == [a \in DOMAIN d \cup {k} |-> IF a = k THEN v ELSE d[a]]

\* an add_trace that keeps only the latest trace
AddTraceLatest(ts, t) == << t >>

\* Context.add_trace: self.traces.append(trace)
AddTrace(ts, t) == Append(ts, t)

\* ---------------------------------------------------------------- Trace
\* Trace(step=name, input=inp, output={}) with started_at = time.time()
NewTrace(name, inp, now) ==
    [step |-> name, input |-> inp, output |-> EmptyMap,
     started_at |-> now, finished_at |-> Unclosed]

\* Trace.close: self.finished_at = time.time()
Close(t, now) == [t EXCEPT !.finished_at = now]

\* ---------------------------------------------------------------- Step
\* a snapshot that copies nothing
SnapshotEmpty(d) == EmptyMap

\* dict(ctx.data): a new dict with the same keys and values
Snapshot(d) == [k \in DOMAIN d |-> d[k]]

NoStr == "-"

Fn(name, kind, out, src, dflt, dst, msg) ==
    [name |-> name, kind |-> kind, out |-> out,
     src |-> src, dflt |-> dflt, dst |-> dst, msg |-> msg]

\* The functions a Step wraps, Callable[[Context], Dict[str, Any]]:
\*   dict      returns the mapping `out` (the shape of mock_pull_marketing_data)
\*   read      returns {dst: ctx.get(src, dflt)} (the shape of mock_build_action_plan)
\*   none      returns None
\*   list      returns a non-empty list, a truthy value without .items()
\*   raise     raises Exception(msg)
\*   interrupt raises a BaseException that is no Exception (KeyboardInterrupt, SystemExit)
StepFns ==
    { Fn("const", "dict", o, NoStr, NoStr, NoStr, NoStr) :
        o \in { EmptyMap, Map1("x", "v1"), Map1("x", "v2"), Map1("y", "v2"),
                Map1("error", "v1"), Map2("x", "v2", "y", "v1") } }
    \cup { Fn("read", "read", EmptyMap, "x", "v1", "y", NoStr),
           Fn("read", "read", EmptyMap, "y", "v2", "x", NoStr),
           Fn("none", "none", EmptyMap, NoStr, NoStr, NoStr, NoStr),
           Fn("list", "list", EmptyMap, NoStr, NoStr, NoStr, NoStr),
           Fn("raise", "raise", EmptyMap, NoStr, NoStr, NoStr, "boom"),
           Fn("interrupt", "interrupt", EmptyMap, NoStr, NoStr, NoStr, NoStr) }

\* str(AttributeError) of [..].items()
NoItemsMsg == "'list' object has no attribute 'items'"

\* self.fn(ctx): what the call returns or raises, given Context.data
FnCall(s, d) ==
    CASE s.kind = "dict"      -> [kind |-> "mapping", val |-> s.out, msg |-> NoStr]
      [] s.kind = "read"      -> [kind |-> "mapping",
                                  val |-> Map1(s.dst, Get(d, s.src, s.dflt)),
                                  msg |-> NoStr]
      [] s.kind = "none"      -> [kind |-> "none", val |-> EmptyMap, msg |-> NoStr]
      [] s.kind = "list"      -> [kind |-> "list", val |-> EmptyMap, msg |-> NoStr]
      [] s.kind = "raise"     -> [kind |-> "Exception", val |-> EmptyMap, msg |-> s.msg]
      [] s.kind = "interrupt" -> [kind |-> "BaseException", val |-> EmptyMap, msg |-> NoStr]

\* `self.fn(ctx) or {}`: a falsy result (None, {}) becomes a new empty dict
OrEmpty(r) == IF r.kind = "none" \/ r.val = EmptyMap THEN EmptyMap ELSE r.val

\* for k, v in output.items(): ctx.set(k, v)
RECURSIVE MergeItems(_, _)
MergeItems(d, out) ==
    IF DOMAIN out = {} THEN d
    ELSE LET k == CHOOSE a \in DOMAIN out : TRUE
         IN MergeItems(Set(d, k, out[k]), [a \in DOMAIN out \ {k} |-> out[a]])

\* trace.output = {"error": str(e)}
ErrorOutput(msg) == Map1("error", msg)

\* the try body raises an Exception: fn raised one, or output.items() did
RaisesException(r) == r.kind \in {"Exception", "list"}

\* str(e) of that Exception
ExcMessage(r) == IF r.kind = "list" THEN NoItemsMsg ELSE r.msg

\* the record of a ctx.get call made by fn
GetCalls(s, d) ==
    IF s.kind = "read"
    THEN << [d |-> d, key |-> s.src, default |-> s.dflt, result |-> Get(d, s.src, s.dflt)] >>
    ELSE << >>

\* ---------------------------------------------------------------- inputs
RECURSIVE SeqsUpTo(_, _)
SeqsUpTo(S, n) ==
    IF n = 0 THEN { << >> }
    ELSE LET shorter == SeqsUpTo(S, n - 1)
         IN shorter \cup { Append(q, e) : q \in { r \in shorter : Len(r) = n - 1 }, e \in S }

\* Context(data=...) handed to Orchestrator.run
InitData == { EmptyMap, Map1("x", "v2") }

Init ==
    /\ steps \in SeqsUpTo(StepFns, MaxSteps)
    /\ data \in InitData
    /\ data0 = data
    /\ traces = << >>
    /\ pc = "loop"
    /\ i = 1
    /\ cur = << >>
    /\ exc = "none"
    /\ clock = Epoch
    /\ invoked = 0
    /\ executed = << >>
    /\ before = << >>
    /\ gets = << >>

\* ---------------------------------------------------------------- Step.run
\* lines 79-80: trace = Trace(step=self.name, input=dict(ctx.data), output={})
StepBegin ==
    /\ pc = "loop"
    /\ i <= Len(steps)
    /\ cur' = << NewTrace(steps[i].name, Snapshot(data), clock) >>
    /\ clock' = clock + 1
    /\ invoked' = invoked + 1
    /\ before' = Append(before, data)
    /\ pc' = "try"
    /\ UNCHANGED <<steps, data, traces, i, exc, executed, data0, gets>>

\* lines 82-87: fn returns, trace.output = output, the output is merged
TryBody ==
    /\ pc = "try"
    /\ LET r == FnCall(steps[i], data)
           output == OrEmpty(r)
       IN /\ r.kind \in {"mapping", "none"}
          /\ cur' = << [cur[1] EXCEPT !.output = output] >>
          /\ data' = MergeItems(data, output)
          /\ gets' = IF GetCalls(steps[i], data) = << >> THEN gets
                     ELSE GetCalls(steps[i], data)
    /\ executed' = Append(executed, i)
    /\ exc' = "none"
    /\ pc' = "finally"
    /\ UNCHANGED <<steps, traces, i, clock, invoked, before, data0>>

\* an except clause that also writes the error into the context
TryExceptMerging ==
    /\ pc = "try"
    /\ LET r == FnCall(steps[i], data)
       IN /\ RaisesException(r)
          /\ cur' = << [cur[1] EXCEPT !.output = ErrorOutput(ExcMessage(r))] >>
          /\ data' = Set(data, "error", ExcMessage(r))
    /\ executed' = Append(executed, i)
    /\ exc' = "Exception"
    /\ pc' = "finally"
    /\ UNCHANGED <<steps, traces, i, clock, invoked, before, data0, gets>>

\* an except clause that records the step's name next to the error
TryExceptNamed ==
    /\ pc = "try"
    /\ LET r == FnCall(steps[i], data)
       IN /\ RaisesException(r)
          /\ cur' = << [cur[1] EXCEPT
                          !.output = Map2("error", ExcMessage(r), "step", steps[i].name)] >>
    /\ executed' = Append(executed, i)
    /\ exc' = "Exception"
    /\ pc' = "finally"
    /\ UNCHANGED <<steps, data, traces, i, clock, invoked, before, data0, gets>>

\* an except clause that re-raises without recording the error
TryExceptNoRecord ==
    /\ pc = "try"
    /\ RaisesException(FnCall(steps[i], data))
    /\ executed' = Append(executed, i)
    /\ exc' = "Exception"
    /\ pc' = "finally"
    /\ UNCHANGED <<steps, data, traces, i, cur, clock, invoked, before, data0, gets>>

\* lines 82-91: fn raises an Exception, or returns a truthy value whose
\* .items() raises AttributeError (line 83 has then stored that value in
\* trace.output, and line 90 replaces it); nothing has been merged.
\* except Exception: trace.output = {"error": str(e)}; raise
TryExcept ==
    /\ pc = "try"
    /\ LET r == FnCall(steps[i], data)
       IN /\ RaisesException(r)
          /\ cur' = << [cur[1] EXCEPT !.output = ErrorOutput(ExcMessage(r))] >>
    /\ executed' = Append(executed, i)
    /\ exc' = "Exception"
    /\ pc' = "finally"
    /\ UNCHANGED <<steps, data, traces, i, clock, invoked, before, data0, gets>>

\* line 82: fn raises a BaseException that `except Exception` does not
\* catch; trace.output keeps the {} it was built with
TryInterrupt ==
    /\ pc = "try"
    /\ FnCall(steps[i], data).kind = "BaseException"
    /\ executed' = Append(executed, i)
    /\ exc' = "BaseException"
    /\ pc' = "finally"
    /\ UNCHANGED <<steps, data, traces, i, cur, clock, invoked, before, data0, gets>>

\* a cleanup that records the trace only when the step succeeded
FinallySuccessOnly ==
    /\ pc = "finally"
    /\ traces' = IF exc = "none" THEN AddTrace(traces, Close(cur[1], clock)) ELSE traces
    /\ clock' = clock + 1
    /\ cur' = << >>
    /\ IF exc = "none"
       THEN pc' = "loop" /\ i' = i + 1
       ELSE pc' = "raised" /\ i' = i
    /\ UNCHANGED <<steps, data, exc, invoked, executed, before, data0, gets>>

\* a step runner that swallows the error and lets the loop go on
FinallySwallow ==
    /\ pc = "finally"
    /\ traces' = AddTrace(traces, Close(cur[1], clock))
    /\ clock' = clock + 1
    /\ cur' = << >>
    /\ pc' = "loop"
    /\ i' = i + 1
    /\ exc' = "none"
    /\ UNCHANGED <<steps, data, invoked, executed, before, data0, gets>>

\* lines 92-94: finally: trace.close(); ctx.add_trace(trace).  Then Step.run
\* returns and the for loop of Orchestrator.run (line 168) goes on, or the
\* exception leaves Step.run and, uncaught at line 169, Orchestrator.run.
Finally ==
    /\ pc = "finally"
    /\ traces' = AddTrace(traces, Close(cur[1], clock))
    /\ clock' = clock + 1
    /\ cur' = << >>
    /\ IF exc = "none"
       THEN pc' = "loop" /\ i' = i + 1
       ELSE pc' = "raised" /\ i' = i
    /\ UNCHANGED <<steps, data, exc, invoked, executed, before, data0, gets>>

\* ---------------------------------------------------------------- Orchestrator.run
\* line 170: the loop is exhausted, return ctx
OrchReturn ==
    /\ pc = "loop"
    /\ i > Len(steps)
    /\ pc' = "returned"
    /\ UNCHANGED <<steps, data, traces, i, cur, exc, clock, invoked, executed, before, data0, gets>>

Next ==
    \/ StepBegin
    \/ TryBody
    \/ TryExcept
    \/ TryInterrupt
    \/ Finally
    \/ OrchReturn

Spec == Init /\ [][Next]_vars

\* ---------------------------------------------------------------- properties
Last(q) == q[Len(q)]

Max(S) == CHOOSE n \in S : \A m \in S : m <= n

Min(S) == CHOOSE n \in S : \A m \in S : n <= m

\* the run is between two steps, or over
Observed == pc \in {"loop", "returned", "raised"}

InStep == pc \in {"try", "finally"}

HasError(t) == "error" \in DOMAIN t.output

\* the step fails whatever the context holds
StepRaises(s) == s.kind \in {"raise", "list", "interrupt"}

RaisingSteps == { n \in 1..Len(steps) : StepRaises(steps[n]) }

\* position of the first step that fails, 0 when none does
FirstRaising == IF RaisingSteps = {} THEN 0 ELSE Min(RaisingSteps)

\* <<1, ..., n>>
UpTo(n) == [m \in 1..n |-> m]

C1_WitnessInterrupt ==
    /\ pc = "raised"
    /\ exc = "BaseException"
    /\ Len(traces) = 1
    /\ Len(steps) = 2

\* C2: guaranteed cleanup.  Every Step.run invocation that has ended, by
\* returning or by raising, has appended exactly one Trace, every Trace in
\* the list is closed (finished_at no longer the initial zero), and the
\* local trace exists exactly while a Step.run is under way.
C2_Cleanup ==
    /\ Len(traces) = invoked - (IF InStep THEN 1 ELSE 0)
    /\ Len(cur) = (IF InStep THEN 1 ELSE 0)
    /\ \A n \in 1..Len(traces) :
          /\ traces[n].finished_at # Unclosed
    /\ \A n \in 1..Len(cur) : cur[n].finished_at = Unclosed

C2_Witness ==
    /\ pc = "raised"
    /\ Len(traces) = 2
    /\ invoked = 2
    /\ Last(traces).finished_at # Unclosed

\* C3: when every step succeeds, the trace list is as long as the step
\* list once Orchestrator.run has returned (and the run does return).
C3_TraceCount ==
    RaisingSteps = {} =>
        /\ pc # "raised"
        /\ pc = "returned" => Len(traces) = Len(steps)

C3_Witness ==
    /\ pc = "returned"
    /\ RaisingSteps = {}
    /\ Len(steps) = 3
    /\ Len(traces) = 3

\* the last trace before the n-th whose output has key k
LastOutput(k, n) == Max({ j \in 1..(n - 1) : k \in DOMAIN traces[j].output })

\* C4: the input of the n-th Trace is Context.data as it was just before
\* step n ran, and it holds every key output by the earlier steps with the
\* value of the latest of them.
C4_InputSnapshot ==
    /\ Len(before) = Len(traces) + Len(cur)
    /\ \A n \in 1..Len(cur) : cur[n].input = before[Len(before)]
    /\ \A n \in 1..Len(traces) :
          /\ traces[n].input = before[n]
          /\ \A j \in 1..(n - 1) : \A k \in DOMAIN traces[j].output :
                /\ k \in DOMAIN traces[n].input
                /\ traces[n].input[k] = traces[LastOutput(k, n)].output[k]

C4_Witness ==
    /\ Len(traces) = 3
    /\ traces[1].output = Map1("x", "v1")
    /\ traces[2].output = Map1("x", "v2")
    /\ traces[3].input = Map1("x", "v2")

\* the result the step under way merges: its function's mapping, or nothing
OwnResult ==
    IF pc = "try" /\ FnCall(steps[i], data).kind \in {"mapping", "none"}
    THEN OrEmpty(FnCall(steps[i], data))
    ELSE EmptyMap

\* C5: merging is cumulative.  No step of the program removes a key from
\* Context.data or changes the value of a key that is not in the result of
\* the step under way; and after [A, B] with A -> {x: v1}, B -> {y: v2}
\* the data holds both x = v1 and y = v2.
C5_Cumulative ==
    /\ [][ \A k \in DOMAIN data :
              /\ k \in DOMAIN data'
              /\ k \notin DOMAIN OwnResult => data'[k] = data[k] ]_vars
    /\ []( /\ pc = "returned"
           /\ Len(steps) = 2
           /\ steps[1].kind = "dict" /\ steps[1].out = Map1("x", "v1")
           /\ steps[2].kind = "dict" /\ steps[2].out = Map1("y", "v2")
           => /\ {"x", "y"} \subseteq DOMAIN data
              /\ data["x"] = "v1"
              /\ data["y"] = "v2" )

C5_Witness ==
    /\ pc = "returned"
    /\ Len(steps) = 2
    /\ steps[1].kind = "dict" /\ steps[1].out = Map1("x", "v1")
    /\ steps[2].kind = "dict" /\ steps[2].out = Map1("y", "v2")
    /\ data = Map2("x", "v1", "y", "v2")

\* number of traces of steps that succeeded
Succeeded == IF pc = "raised" THEN Len(traces) - 1 ELSE Len(traces)

\* the successful steps whose result has key k
Writers(k) == { n \in 1..Succeeded : k \in DOMAIN traces[n].output }

\* C6: last write wins.  Between steps and at the end of the run, every
\* key some successful step has output holds the value output by the last
\* such step; a key no step has output is as it was when the run began.
C6_LastWriteWins ==
    Observed =>
        \A k \in Keys :
            IF Writers(k) # {}
            THEN /\ k \in DOMAIN data
                 /\ data[k] = traces[Max(Writers(k))].output[k]
            ELSE /\ k \in DOMAIN data <=> k \in DOMAIN data0
                 /\ k \in DOMAIN data => data[k] = data0[k]

C6_Witness ==
    /\ pc = "returned"
    /\ Len(traces) = 2
    /\ traces[1].output = Map1("x", "v1")
    /\ traces[2].output = Map1("x", "v2")
    /\ data["x"] = "v2"

\* C7: Context.get(key, default) returns default if and only if key is
\* absent from Context.data.  This is the claim as stated.
C7_Original ==
    \A n \in 1..Len(gets) :
        gets[n].result = gets[n].default <=> gets[n].key \notin DOMAIN gets[n].d

\* C7 as amended: get returns default when the key is absent and the
\* stored value when it is present, so it returns default if and only if
\* the key is absent or the stored value equals default.
C7_Get ==
    \A n \in 1..Len(gets) :
        LET g == gets[n]
        IN /\ g.key \notin DOMAIN g.d => g.result = g.default
           /\ g.key \in DOMAIN g.d => g.result = g.d[g.key]
           /\ g.result = g.default <=>
                 (g.key \notin DOMAIN g.d \/ g.d[g.key] = g.default)

C7_Witness ==
    /\ gets # << >>
    /\ gets[1].key \in DOMAIN gets[1].d
    /\ gets[1].result # gets[1].default

C7_WitnessAbsent ==
    /\ gets # << >>
    /\ gets[1].key \notin DOMAIN gets[1].d
    /\ gets[1].result = gets[1].default

\* the steps invoked so far that failed
FailedSteps == { n \in 1..Len(executed) : StepRaises(steps[executed[n]]) }

\* every error is fatal: a failed step is the last one invoked, Step.run
\* ends by raising and Orchestrator.run never returns the Context
Fatal ==
    /\ FailedSteps # {} =>
          /\ FailedSteps = {Len(executed)}
          /\ exc # "none"
          /\ pc \in {"finally", "raised"}
    /\ pc = "raised" => FailedSteps # {}
    /\ pc = "returned" => FailedSteps = {}

C8_WitnessRaise ==
    /\ pc = "raised"
    /\ steps[i].kind = "raise"
    /\ Last(traces).output = ErrorOutput("boom")

\* C9: between steps and at the end, the run has failed if and only if the
\* trace list is non-empty and the last trace's output has an "error" key.
\* This is the claim as stated.
C9_Original ==
    Observed =>
        (pc = "raised" <=> (traces # << >> /\ HasError(Last(traces))))

\* C9 as amended: a run that failed with an Exception has a non-empty
\* trace list whose last output has an "error" key; a run that has not
\* failed has an "error" key in its last trace's output exactly when the
\* result of its last step has that key.
C9_Lifecycle ==
    /\ pc = "raised" /\ exc = "Exception" =>
          /\ traces # << >>
          /\ HasError(Last(traces))
    /\ Observed /\ pc # "raised" /\ traces # << >> =>
          (HasError(Last(traces)) <=>
              "error" \in DOMAIN OrEmpty(FnCall(steps[Len(traces)], before[Len(traces)])))

C9_Witness ==
    /\ pc = "raised"
    /\ exc = "Exception"
    /\ Len(traces) = 2
    /\ HasError(Last(traces))
    /\ ~ HasError(traces[1])

C9_WitnessSuccessError ==
    /\ pc = "returned"
    /\ traces # << >>
    /\ HasError(Last(traces))

\* C10: a failing step merges nothing.  When Step.run ends by raising,
\* Context.data equals the input snapshot of that step's Trace, so the
\* "error" entry of the Trace output is not in Context.data.
C10_FailureMergesNothing ==
    /\ pc = "finally" /\ exc # "none" =>
          /\ data = cur[1].input
          /\ data = before[i]
    /\ pc = "raised" =>
          /\ data = Last(traces).input
          /\ data = before[i]
          /\ HasError(Last(traces)) =>
                ("error" \in DOMAIN data => data["error"] # Last(traces).output["error"])

C10_Witness ==
    /\ pc = "raised"
    /\ exc = "Exception"
    /\ Len(traces) = 2
    /\ data = Map1("x", "v1")
    /\ Last(traces).input = Map1("x", "v1")
    /\ "error" \notin DOMAIN data

====
